---------------------------- MODULE Spec2Model ----------------------------
(***************************************************************************)
(* A model of skelterjohn/pipeline (src/unnamed/part_001, the version of   *)
(* main.go that has getBufferLinesToShow and the -buffersize flag).        *)
(*                                                                         *)
(*   Spec        the running program: the stdin ingestion goroutine, the   *)
(*               render goroutine (ticker, processPipeline, channels) and  *)
(*               the main goroutine (key events, deferred exit handler).   *)
(*   SpecBuffer  buffer.Write / buffer.Clean applied to arbitrary data.    *)
(*   SpecLayout  getBufferLinesToShow applied to arbitrary arguments.      *)
(*                                                                         *)
(* Bytes and runes are small values; strings are sequences of them.  The   *)
(* terminal (termbox cells) and the log are external and not modelled.     *)
(***************************************************************************)
EXTENDS Integers, Sequences, FiniteSets, TLC

VARIABLES
    \* type buffer (part_001:29-34)
    inbuf,          \* buffer.buffer: the unread bytes of the bytes.Buffer
    dirty,          \* buffer.dirty
    buffersize,     \* buffer.buffersize (the -buffersize flag)
    mutex,          \* buffer.Mutex: TRUE while a Write holds it
    \* the ingestion goroutine, io.Copy(p.inbuf, os.Stdin) (part_001:255-258)
    ipc,            \* "idle" | "locked" (inside Write, after the trim)
    idata,          \* the data of the Write in progress
    written,        \* every byte handed to Write so far, in order
    \* type pipeline (part_001:70-76)
    outbuf, showbuf, errbuf, lastLine,
    \* the render goroutine (part_001:275-313)
    rpc,            \* "select" | "process" | "running" | "clean" | "errorCh" | "done"
    line, rcursor, redraw, processError,
    cmdin,          \* cmd.Stdin of the command in flight
    run,            \* what the last cmd.Run produced: [out, err, ok]
    lastEval,       \* "none" | "ok" | "fail": result of the last processPipeline
    \* the main goroutine (part_001:226-359)
    mpc,            \* "poll" | "redrawCh" | "lineCh" | "cursorCh" | "defer" | "errorCh" | "exit"
    ev,             \* e, the event PollEvent returned last (line 318)
    lineBuffer, cursor, gracefulExit,
    quit,           \* TRUE once close(quit) ran
    stdout,         \* bytes written to os.Stdout
    exited,         \* the process has ended
    exitCode,       \* its status once exited
    \* one call of getBufferLinesToShow
    lrows, lcols, lskip, ldata, lines, lpc

bufferVars == <<inbuf, dirty, buffersize, mutex, ipc, idata, written>>
pipelineVars == <<outbuf, showbuf, errbuf, lastLine>>
renderVars == <<rpc, line, rcursor, redraw, processError, cmdin, run, lastEval>>
mainVars == <<mpc, ev, lineBuffer, cursor, gracefulExit, quit, stdout, exited, exitCode>>
layoutVars == <<lrows, lcols, lskip, ldata, lines, lpc>>
vars == <<bufferVars, pipelineVars, renderVars, mainVars, layoutVars>>

---------------------------------------------------------------------------
(* Bounds *)

\* SpecBuffer: largest -buffersize, most bytes written in all, longest Write
MaxBufferSize == 3
MaxWritten == 4
MaxChunk == 3
\* SpecLayout: longest content, largest rows, cols and skipFromEnd
MaxData == 4
MaxRows == 3
MaxCols == 3
MaxSkip == 3
\* Spec: the -buffersize flag, most bytes read from stdin, longest command
\* line
BufferSize == 3
MaxStdin == 2
MaxLine == 1
\* SpecEdit: longest command line, in bytes
MaxEditLine == 3

Min(a, b) == IF a < b THEN a ELSE b
Max(a, b) == IF a < b THEN b ELSE a

\* all sequences over S of length 0..n
SeqsUpTo(S, n) == UNION {[1..k -> S] : k \in 0..n}

Byte == {1, 2}
\* the bytes Spec reads from stdin
StdinByte == {1}

---------------------------------------------------------------------------
(* type buffer *)

\* bytes.Buffer.Next(n): drop the next n bytes, or all of them if fewer
BufferNext(buf, n) == SubSeq(buf, Min(n, Len(buf)) + 1, Len(buf))

\* buffer.Write, lines 40-43: overage and the trim
WriteTrim(buf, size, data) ==
    LET overage == size - (Len(buf) + Len(data))
    IN  IF overage > 0 THEN BufferNext(buf, overage) ELSE buf

\* buffer.Write, line 45: b.buffer.Write(data)
WriteAppend(buf, data) == buf \o data

\* buffer.Write, line 46: b.dirty = b.dirty || n != 0
WriteDirty(d, data) == d \/ Len(data) # 0

\* buffer.Write as a whole
Write(buf, size, data) == WriteAppend(WriteTrim(buf, size, data), data)

---------------------------------------------------------------------------
(* getBufferLinesToShow *)

TabWidth == 4

NL == "\n"
TAB == "\t"
SP == " "
Rune == {"a", "b", NL, TAB}

\* lines 138-144: the 1-based position of the last newline among the last
\* cols-1 runes of rs, 0 when there is none (lastNewline == -1)
LastNewline(rs, cols) ==
    LET found == {j \in 1..Len(rs) : j - 1 > Len(rs) - cols /\ rs[j] = NL}
    IN  IF found = {} THEN 0 ELSE CHOOSE j \in found : \A k \in found : k <= j

\* lines 156-169: expand tabs, to the next multiple of TabWidth
RECURSIVE ExpandTabs(_, _)
ExpandTabs(totalLine, expandedLine) ==
    IF totalLine = <<>> THEN expandedLine
    ELSE LET c == Head(totalLine)
             spacesRemaining == TabWidth - (Len(expandedLine) % TabWidth)
         IN  IF c = TAB
             THEN ExpandTabs(Tail(totalLine),
                             expandedLine \o [j \in 1..spacesRemaining |-> SP])
             ELSE ExpandTabs(Tail(totalLine), Append(expandedLine, c))

\* lines 175-183: cut totalLine into pieces of cols runes, each new piece
\* put in front of the earlier ones
RECURSIVE WrapPieces(_, _, _)
WrapPieces(totalLine, cols, linePieces) ==
    IF Len(totalLine) > cols
    THEN WrapPieces(SubSeq(totalLine, cols + 1, Len(totalLine)), cols,
                    <<SubSeq(totalLine, 1, cols)>> \o linePieces)
    ELSE IF Len(totalLine) > 0 THEN <<totalLine>> \o linePieces
    ELSE linePieces

\* lines 171-184
LinePieces(totalLine, cols) ==
    IF Len(totalLine) = 0 THEN << <<>> >> ELSE WrapPieces(totalLine, cols, <<>>)

\* lines 134-195: the loop, one logical line per iteration
RECURSIVE LinesInReverse(_, _, _, _)
LinesInReverse(rs, cols, linesToRender, linesInReverse) ==
    IF linesToRender >= 0 /\ Len(rs) > 0
    THEN LET lastNewline == LastNewline(rs, cols)
             totalLine == IF lastNewline = 0 THEN rs
                          ELSE SubSeq(rs, lastNewline + 1, Len(rs))
             linePieces == LinePieces(ExpandTabs(totalLine, <<>>), cols)
             rest == IF lastNewline # 0 THEN SubSeq(rs, 1, lastNewline - 1)
                     ELSE <<>>
         IN  LinesInReverse(rest, cols, linesToRender - Len(linePieces),
                            linesInReverse \o linePieces)
    ELSE linesInReverse

\* lines 196-204: all of linesInReverse but its first skipFromEnd, reversed
ReverseSkipping(linesInReverse, skipFromEnd) ==
    LET n == Len(linesInReverse)
    IN  [i \in 1..Max(0, n - skipFromEnd) |-> linesInReverse[n - i + 1]]

getBufferLinesToShow(rows, cols, skipFromEnd, data) ==
    ReverseSkipping(LinesInReverse(data, cols, rows + skipFromEnd - 1, <<>>),
                    skipFromEnd)

---------------------------------------------------------------------------
(* The state after construction *)

InitBufferVars ==
    /\ inbuf = <<>>
    /\ dirty = FALSE
    /\ mutex = FALSE
    /\ ipc = "idle"
    /\ idata = <<>>
    /\ written = <<>>

InitPipelineVars ==
    /\ outbuf = <<>>
    /\ showbuf = <<>>
    /\ errbuf = <<>>
    /\ lastLine = <<>>

InitRenderVars ==
    /\ rpc = "select"
    /\ line = <<>>
    /\ rcursor = 0
    /\ redraw = FALSE
    /\ processError = FALSE
    /\ cmdin = <<>>
    /\ run = [out |-> <<>>, err |-> <<>>, ok |-> TRUE]
    /\ lastEval = "none"

\* termbox key events.  Key "0" is e.Key == 0: a character (e.Ch) or, with
\* Width and Height set and Ch == 0, a resize.
NUL == "NUL"

\* e before the first PollEvent
NoEvent == [Key |-> "none", Ch |-> NUL, Width |-> 0, Height |-> 0]

InitMainVars ==
    /\ mpc = "poll"
    /\ ev = NoEvent
    /\ lineBuffer = <<>>
    /\ cursor = 0
    /\ gracefulExit = FALSE
    /\ quit = FALSE
    /\ stdout = <<>>
    /\ exited = FALSE
    /\ exitCode = 0

InitLayoutVars ==
    /\ lrows = 1
    /\ lcols = 1
    /\ lskip = 0
    /\ ldata = <<>>
    /\ lines = <<>>
    /\ lpc = "idle"

---------------------------------------------------------------------------
(* SpecBuffer: Write and Clean on a buffer of any size *)

InitBuffer ==
    /\ InitBufferVars
    /\ InitPipelineVars /\ InitRenderVars /\ InitMainVars /\ InitLayoutVars
    /\ buffersize \in 1..MaxBufferSize

BufWrite(data) ==
    /\ Len(written) + Len(data) <= MaxWritten
    /\ inbuf' = Write(inbuf, buffersize, data)
    /\ dirty' = WriteDirty(dirty, data)
    /\ written' = written \o data
    /\ UNCHANGED <<buffersize, mutex, ipc, idata>>
    /\ UNCHANGED <<pipelineVars, renderVars, mainVars, layoutVars>>

BufClean ==
    /\ dirty
    /\ dirty' = FALSE
    /\ UNCHANGED <<inbuf, buffersize, mutex, ipc, idata, written>>
    /\ UNCHANGED <<pipelineVars, renderVars, mainVars, layoutVars>>

NextBuffer ==
    \/ \E data \in SeqsUpTo(Byte, MaxChunk) : BufWrite(data)
    \/ BufClean

SpecBuffer == InitBuffer /\ [][NextBuffer]_vars

---------------------------------------------------------------------------
(* SpecLayout: one call of getBufferLinesToShow *)

InitLayout ==
    /\ InitBufferVars /\ buffersize = 0
    /\ InitPipelineVars /\ InitRenderVars /\ InitMainVars
    /\ lrows \in 1..MaxRows
    /\ lcols \in 1..MaxCols
    /\ lskip \in 0..MaxSkip
    /\ ldata \in SeqsUpTo(Rune, MaxData)
    /\ lines = <<>>
    /\ lpc = "call"

CallLayout ==
    /\ lpc = "call"
    /\ lines' = getBufferLinesToShow(lrows, lcols, lskip, ldata)
    /\ lpc' = "done"
    /\ UNCHANGED <<lrows, lcols, lskip, ldata>>
    /\ UNCHANGED <<bufferVars, pipelineVars, renderVars, mainVars>>

NextLayout == CallLayout

SpecLayout == InitLayout /\ [][NextLayout]_vars

---------------------------------------------------------------------------
(* Spec: the running program *)

LineChar == {"x", ";"}
\* lines 326-327: case termbox.KeyEsc, termbox.KeyCtrlC
CancelKeys == {"KeyEsc", "KeyCtrlC"}
EditKeys == {"KeySpace", "KeyBackspace", "KeyBackspace2", "KeyArrowLeft",
             "KeyArrowRight", "KeyCtrlA", "KeyCtrlK", "KeyF1"}
KeyEvents == [Key : EditKeys, Ch : {NUL}, Width : {0}, Height : {0}]
ChEvents == [Key : {"0"}, Ch : LineChar, Width : {0}, Height : {0}]
ResizeEvents == [Key : {"0"}, Ch : {NUL}, Width : {1}, Height : {1}]
Events == KeyEvents \cup ChEvents \cup ResizeEvents
\* a character outside ASCII, and the events SpecEdit draws from
WideChEvents == [Key : {"0"}, Ch : {"e-acute"}, Width : {0}, Height : {0}]
EditEvents == Events \cup WideChEvents
\* the events Spec draws from
MainEvents == {e \in Events : e.Key \in {"0", "KeyBackspace"}}

\* lineBuffer[:cursor] + s + lineBuffer[cursor:]
InsertAt(lb, cur, s) == SubSeq(lb, 1, cur) \o s \o SubSeq(lb, cur + 1, Len(lb))

\* string(e.Ch), line 349: the UTF-8 encoding of the rune, two bytes for e-acute
\* (0xC3 0xA9) and one for an ASCII character or NUL; lineBuffer is a Go
\* string, indexed and measured in bytes
Utf8(ch) == IF ch = "e-acute" THEN <<"C3", "A9">> ELSE <<ch>>

\* an arrow right that does not look at the end of the line
ArrowRightAlways(lb, cur) == cur + 1

\* lines 340-343: case termbox.KeyArrowRight
ArrowRight(lb, cur) == IF cur < Len(lb) THEN cur + 1 ELSE cur

\* main, lines 322-351: the switch on e.Key, for the keys that do not end
\* the loop
EditKey(e, lb, cur) ==
    CASE e.Key = "KeySpace" ->
            [lineBuffer |-> InsertAt(lb, cur, <<SP>>), cursor |-> cur + 1]
      [] e.Key \in {"KeyBackspace", "KeyBackspace2"} ->
            IF cur # 0
            THEN [lineBuffer |-> SubSeq(lb, 1, cur - 1) \o SubSeq(lb, cur + 1, Len(lb)),
                  cursor |-> cur - 1]
            ELSE [lineBuffer |-> lb, cursor |-> cur]
      [] e.Key = "KeyArrowLeft" ->
            [lineBuffer |-> lb, cursor |-> IF cur > 0 THEN cur - 1 ELSE cur]
      [] e.Key = "KeyArrowRight" ->
            [lineBuffer |-> lb, cursor |-> ArrowRight(lb, cur)]
      [] e.Key = "KeyCtrlA" -> [lineBuffer |-> lb, cursor |-> 0]
      [] e.Key = "KeyCtrlK" -> [lineBuffer |-> SubSeq(lb, 1, cur), cursor |-> cur]
      [] e.Key = "0" ->
            [lineBuffer |-> InsertAt(lb, cur, Utf8(e.Ch)), cursor |-> cur + 1]
      [] OTHER -> [lineBuffer |-> lb, cursor |-> cur]

\* a loop that sends no forced redraw
FirstSendLine(e) == "lineCh"

\* lines 352-354: what the loop sends first
FirstSend(e) == IF e.Width # 0 \/ e.Height # 0 THEN "redrawCh" ELSE "lineCh"

---------------------------------------------------------------------------
(* SpecEdit: the switch of the input loop alone, on every kind of event *)

InitEdit ==
    /\ InitBufferVars /\ buffersize = 0
    /\ InitPipelineVars /\ InitRenderVars /\ InitMainVars /\ InitLayoutVars

\* lines 318-351: PollEvent and the switch, for an event that does not end
\* the loop
EditEvent(e) ==
    /\ Len(EditKey(e, lineBuffer, cursor).lineBuffer) <= MaxEditLine
    /\ ev' = e
    /\ lineBuffer' = EditKey(e, lineBuffer, cursor).lineBuffer
    /\ cursor' = EditKey(e, lineBuffer, cursor).cursor
    /\ UNCHANGED <<mpc, gracefulExit, quit, stdout, exited, exitCode>>
    /\ UNCHANGED <<bufferVars, pipelineVars, renderVars, layoutVars>>

NextEdit == \E e \in EditEvents : EditEvent(e)

SpecEdit == InitEdit /\ [][NextEdit]_vars

---------------------------------------------------------------------------
(* Spec: the operators of processPipeline, the tick and the deferred handler *)

\* a processPipeline that flips whatever cmd.Run returned
FlipAlways(ok, out, show) == [outbuf |-> show, showbuf |-> out]

\* processPipeline, lines 94-97: flip outbuf to the front when cmd.Run
\* returned no error
FlipToFront(ok, out, show) ==
    IF ok THEN [outbuf |-> show, showbuf |-> out]
    ELSE [outbuf |-> out, showbuf |-> show]

\* a processPipeline that does not empty its buffers
TruncateNot(buf) == buf

\* processPipeline, lines 80-81: Truncate(0)
Truncate(buf) == <<>>

\* a processPipeline without the special case of the empty line
EmptyLineNever(l) == FALSE

\* processPipeline, line 82: if line == ""
EmptyLine(l) == l = <<>>

\* a tick that evaluates every time
NeedsAlways(l, last, d) == TRUE

\* the tick, line 285
NeedsProcess(l, last, d) == l # last \/ d

\* a handler that does not test gracefulExit
AwaitsAlways(graceful) == TRUE

\* the deferred handler, line 267: gracefulExit && ..., evaluated left to
\* right, so errorCh is read only after a graceful exit
AwaitsErrorCh(graceful) == graceful

\* a handler that ignores the error report
CopiesAlways(perr) == TRUE

\* the deferred handler, lines 267-271: copy to stdout, or os.Exit(1)
CopiesToStdout(perr) == ~perr

\* what cmd.Run can produce: stdout, stderr, and whether err == nil
RunResults ==
    [out : {<<1>>, <<2>>}, err : {<<>>}, ok : {TRUE}]
        \cup [out : {<<1>>}, err : {<<1>>}, ok : {FALSE}]

Init ==
    /\ InitBufferVars /\ buffersize = BufferSize
    /\ InitPipelineVars /\ InitRenderVars /\ InitMainVars /\ InitLayoutVars

(* the ingestion goroutine: io.Copy calls p.inbuf.Write for each chunk read *)

\* Write, lines 37-43: take the lock, trim
WriteLock(data) ==
    /\ ~exited /\ ipc = "idle" /\ ~mutex
    /\ Len(written) + Len(data) <= MaxStdin
    /\ mutex' = TRUE
    /\ inbuf' = WriteTrim(inbuf, buffersize, data)
    /\ idata' = data
    /\ written' = written \o data
    /\ ipc' = "locked"
    /\ UNCHANGED <<dirty, buffersize>>
    /\ UNCHANGED <<pipelineVars, renderVars, mainVars, layoutVars>>

\* Write, lines 45-47: append, set dirty, unlock
WriteUnlock ==
    /\ ~exited /\ ipc = "locked"
    /\ inbuf' = WriteAppend(inbuf, idata)
    /\ dirty' = WriteDirty(dirty, idata)
    /\ mutex' = FALSE
    /\ idata' = <<>>
    /\ ipc' = "idle"
    /\ UNCHANGED <<buffersize, written>>
    /\ UNCHANGED <<pipelineVars, renderVars, mainVars, layoutVars>>

(* the render goroutine *)

\* case <-t.C, lines 284-302: the test of line 285 (Dirty takes the lock
\* and is called only when line == p.lastLine); with nothing to process,
\* render if redraw is set
Tick ==
    /\ ~exited /\ rpc = "select"
    /\ (line = lastLine => ~mutex)
    /\ IF NeedsProcess(line, lastLine, dirty)
       THEN /\ rpc' = "process"
            /\ UNCHANGED redraw
       ELSE /\ redraw' = FALSE
            /\ UNCHANGED rpc
    /\ UNCHANGED <<line, rcursor, processError, cmdin, run, lastEval>>
    /\ UNCHANGED <<bufferVars, pipelineVars, mainVars, layoutVars>>

\* processPipeline, lines 79-91: outbuf and errbuf are truncated; the empty
\* line prints the input to outbuf and flips it to the front; any other
\* line starts the command on a copy of the input.  p.inbuf.String() takes
\* no lock.
ProcessStart ==
    /\ ~exited /\ rpc = "process"
    /\ lastLine' = line
    /\ errbuf' = Truncate(errbuf)
    /\ IF EmptyLine(line)
       THEN /\ outbuf' = FlipToFront(TRUE, Truncate(outbuf) \o inbuf, showbuf).outbuf
            /\ showbuf' = FlipToFront(TRUE, Truncate(outbuf) \o inbuf, showbuf).showbuf
            /\ processError' = FALSE
            /\ lastEval' = "ok"
            /\ rpc' = "clean"
            /\ UNCHANGED cmdin
       ELSE /\ outbuf' = Truncate(outbuf)
            /\ cmdin' = inbuf
            /\ rpc' = "running"
            /\ UNCHANGED <<showbuf, processError, lastEval>>
    /\ UNCHANGED <<line, rcursor, redraw, run>>
    /\ UNCHANGED <<bufferVars, mainVars, layoutVars>>

\* processPipeline, lines 92-98, and lines 286-292: cmd.Run returns, having
\* written the command's stdout to outbuf and its stderr to errbuf
RunFinish(res) ==
    /\ ~exited /\ rpc = "running"
    /\ run' = res
    /\ errbuf' = errbuf \o res.err
    /\ outbuf' = FlipToFront(res.ok, outbuf \o res.out, showbuf).outbuf
    /\ showbuf' = FlipToFront(res.ok, outbuf \o res.out, showbuf).showbuf
    /\ processError' = ~res.ok
    /\ lastEval' = IF res.ok THEN "ok" ELSE "fail"
    /\ rpc' = "clean"
    /\ UNCHANGED <<lastLine, line, rcursor, redraw, cmdin>>
    /\ UNCHANGED <<bufferVars, mainVars, layoutVars>>

\* lines 293-302: p.inbuf.Clean(), then the render that redraw = true asks for
CleanAndRender ==
    /\ ~exited /\ rpc = "clean" /\ ~mutex
    /\ dirty' = FALSE
    /\ redraw' = FALSE
    /\ rpc' = "select"
    /\ UNCHANGED <<inbuf, buffersize, mutex, ipc, idata, written>>
    /\ UNCHANGED <<line, rcursor, processError, cmdin, run, lastEval>>
    /\ UNCHANGED <<pipelineVars, mainVars, layoutVars>>

\* case redraw = <-redrawCh, with main's send of line 353
RecvRedraw ==
    /\ ~exited /\ rpc = "select" /\ mpc = "redrawCh"
    /\ redraw' = TRUE
    /\ mpc' = "lineCh"
    /\ UNCHANGED <<rpc, line, rcursor, processError, cmdin, run, lastEval>>
    /\ UNCHANGED <<ev, lineBuffer, cursor, gracefulExit, quit, stdout, exited, exitCode>>
    /\ UNCHANGED <<bufferVars, pipelineVars, layoutVars>>

\* case line = <-lineCh, with main's send of line 355
RecvLine ==
    /\ ~exited /\ rpc = "select" /\ mpc = "lineCh"
    /\ line' = lineBuffer
    /\ mpc' = "cursorCh"
    /\ UNCHANGED <<rpc, rcursor, redraw, processError, cmdin, run, lastEval>>
    /\ UNCHANGED <<ev, lineBuffer, cursor, gracefulExit, quit, stdout, exited, exitCode>>
    /\ UNCHANGED <<bufferVars, pipelineVars, layoutVars>>

\* case cursor = <-cursorCh, with main's send of line 356
RecvCursor ==
    /\ ~exited /\ rpc = "select" /\ mpc = "cursorCh"
    /\ rcursor' = cursor
    /\ redraw' = TRUE
    /\ mpc' = "poll"
    /\ UNCHANGED <<rpc, line, processError, cmdin, run, lastEval>>
    /\ UNCHANGED <<ev, lineBuffer, cursor, gracefulExit, quit, stdout, exited, exitCode>>
    /\ UNCHANGED <<bufferVars, pipelineVars, layoutVars>>

\* a coordinator that returns on quit without reporting
RecvQuitSilent ==
    /\ ~exited /\ rpc = "select" /\ quit
    /\ rpc' = "done"
    /\ UNCHANGED <<line, rcursor, redraw, processError, cmdin, run, lastEval>>
    /\ UNCHANGED <<bufferVars, pipelineVars, mainVars, layoutVars>>

\* case <-quit, lines 307-309: go on to send processError on errorCh
RecvQuit ==
    /\ ~exited /\ rpc = "select" /\ quit
    /\ rpc' = "errorCh"
    /\ UNCHANGED <<line, rcursor, redraw, processError, cmdin, run, lastEval>>
    /\ UNCHANGED <<bufferVars, pipelineVars, mainVars, layoutVars>>

(* the main goroutine *)

\* lines 323-325 and 358: Enter ends the loop gracefully; close(quit)
KeyEnter ==
    /\ ~exited /\ mpc = "poll"
    /\ ev' = [Key |-> "KeyEnter", Ch |-> NUL, Width |-> 0, Height |-> 0]
    /\ gracefulExit' = TRUE
    /\ quit' = TRUE
    /\ mpc' = "defer"
    /\ UNCHANGED <<lineBuffer, cursor, stdout, exited, exitCode>>
    /\ UNCHANGED <<bufferVars, pipelineVars, renderVars, layoutVars>>

\* lines 326-327 and 358: Esc or Ctrl-C ends the loop; close(quit)
KeyCancel ==
    /\ ~exited /\ mpc = "poll"
    /\ \E k \in CancelKeys :
           ev' = [Key |-> k, Ch |-> NUL, Width |-> 0, Height |-> 0]
    /\ quit' = TRUE
    /\ mpc' = "defer"
    /\ UNCHANGED <<lineBuffer, cursor, gracefulExit, stdout, exited, exitCode>>
    /\ UNCHANGED <<bufferVars, pipelineVars, renderVars, layoutVars>>

\* lines 328-354: any other event edits the line, then the sends begin
KeyEdit(e) ==
    /\ ~exited /\ mpc = "poll"
    /\ ev' = e
    /\ Len(EditKey(e, lineBuffer, cursor).lineBuffer) <= MaxLine
    /\ lineBuffer' = EditKey(e, lineBuffer, cursor).lineBuffer
    /\ cursor' = EditKey(e, lineBuffer, cursor).cursor
    /\ mpc' = FirstSend(e)
    /\ UNCHANGED <<gracefulExit, quit, stdout, exited, exitCode>>
    /\ UNCHANGED <<bufferVars, pipelineVars, renderVars, layoutVars>>

\* the deferred handler, lines 261-271, up to the read of errorCh
Defer ==
    /\ ~exited /\ mpc = "defer"
    /\ IF AwaitsErrorCh(gracefulExit)
       THEN /\ mpc' = "errorCh"
            /\ UNCHANGED <<exited, exitCode>>
       ELSE /\ mpc' = "exit"
            /\ exited' = TRUE
            /\ exitCode' = 1
    /\ UNCHANGED <<ev, lineBuffer, cursor, gracefulExit, quit, stdout>>
    /\ UNCHANGED <<bufferVars, pipelineVars, renderVars, layoutVars>>

\* errorCh <- processError (line 309) meets <-errorCh (line 267); then
\* io.Copy(os.Stdout, p.outbuf), which drains outbuf, and main returns, or
\* os.Exit(1)
ErrorReport ==
    /\ ~exited /\ mpc = "errorCh" /\ rpc = "errorCh"
    /\ rpc' = "done"
    /\ mpc' = "exit"
    /\ exited' = TRUE
    /\ IF CopiesToStdout(processError)
       THEN /\ stdout' = stdout \o outbuf
            /\ outbuf' = <<>>
            /\ exitCode' = 0
       ELSE /\ exitCode' = 1
            /\ UNCHANGED <<stdout, outbuf>>
    /\ UNCHANGED <<showbuf, errbuf, lastLine>>
    /\ UNCHANGED <<line, rcursor, redraw, processError, cmdin, run, lastEval>>
    /\ UNCHANGED <<ev, lineBuffer, cursor, gracefulExit, quit>>
    /\ UNCHANGED <<bufferVars, layoutVars>>

Next ==
    \/ \E data \in SeqsUpTo(StdinByte, MaxStdin) \ {<<>>} : WriteLock(data)
    \/ WriteUnlock
    \/ Tick
    \/ ProcessStart
    \/ \E res \in RunResults : RunFinish(res)
    \/ CleanAndRender
    \/ RecvRedraw
    \/ RecvLine
    \/ RecvCursor
    \/ RecvQuit
    \/ KeyEnter
    \/ KeyCancel
    \/ \E e \in MainEvents : KeyEdit(e)
    \/ Defer
    \/ ErrorReport

Spec == Init /\ [][Next]_vars

\* The scheduling the runtime gives.  A goroutine that can run does run: the
\* ingestor leaves Write, the coordinator goes on from the start of
\* processPipeline to Clean and the render, main runs its deferred handler
\* and the two sides of errorCh meet.  cmd.Run returns (the command
\* terminates).  select chooses among its ready cases at random, so the quit
\* case, ready at every select once quit is closed, is chosen in the end.
Fairness ==
    /\ WF_vars(WriteUnlock)
    /\ WF_vars(ProcessStart \/ (\E res \in RunResults : RunFinish(res))
                   \/ CleanAndRender)
    /\ SF_vars(RecvQuit)
    /\ WF_vars(Defer \/ ErrorReport)

SpecFair == Init /\ [][Next]_vars /\ Fairness

---------------------------------------------------------------------------
(* Properties *)

\* C1: after a graceful exit on which the coordinator reported no error,
\* the bytes on standard output are the contents of showbuf.
C1_StdoutIsShowbuf == (exited /\ exitCode = 0) => stdout = showbuf

\* C2: swap on success.  From the start of processPipeline until cmd.Run
\* returns, showbuf does not change; when cmd.Run fails showbuf is left as it
\* was, when it succeeds showbuf is exactly the command's stdout; and the
\* empty line puts the input buffer's contents in showbuf.
C2_SwapOnSuccess ==
    [][/\ (rpc' = "running" => showbuf' = showbuf)
       /\ (rpc = "running" /\ rpc' = "clean" =>
               IF run'.ok THEN showbuf' = run'.out ELSE showbuf' = showbuf)
       /\ (rpc = "process" /\ rpc' = "clean" => showbuf' = inbuf)]_vars

\* a failing command has just returned partial output that differs from
\* what is shown
C2_Witness ==
    /\ rpc = "clean" /\ lastEval = "fail" /\ ~run.ok
    /\ run.out # <<>> /\ showbuf # <<>> /\ showbuf # run.out

\* C3: the process exits 0 exactly when the user accepted and the last
\* evaluation, if there was one, succeeded; it exits 1 on cancellation and on
\* acceptance after a failed last evaluation.
C3_ExitStatus ==
    exited => /\ exitCode \in {0, 1}
              /\ exitCode = 0 <=> (gracefulExit /\ lastEval # "fail")

\* accepted while the last evaluation was an error
C3_Witness == exited /\ gracefulExit /\ lastEval = "fail" /\ exitCode = 1

\* C4: without a graceful exit nothing is ever written to standard output.
C4_CancelNoOutput == ~gracefulExit => stdout = <<>>

\* cancelled after successful evaluations left bytes in both buffers
C4_Witness ==
    /\ exited /\ ~gracefulExit /\ lastEval = "ok"
    /\ outbuf # <<>> /\ showbuf # <<>>

\* C5: a command is in flight only for a line that ends with ';'.
C5_RunsOnlyAfterSemicolon ==
    rpc = "running" => (lastLine # <<>> /\ lastLine[Len(lastLine)] = ";")

\* C6: the input buffer never holds more than buffersize bytes.
C6_BufferBounded == Len(inbuf) <= buffersize

\* C7: once buffersize bytes or more have been written, the buffer holds
\* exactly the last buffersize of them.
C7_Retention ==
    Len(written) >= buffersize =>
        inbuf = SubSeq(written, Len(written) - buffersize + 1, Len(written))

\* C8: with skipFromEnd = 0 the layout has at most rows rows of at most
\* cols runes each.
C8_AtMostRowsByCols ==
    (lpc = "done" /\ lskip = 0) =>
        /\ Len(lines) <= lrows
        /\ \A i \in 1..Len(lines) : Len(lines[i]) <= lcols

\* The reference layout of C9 and C10: the content split at every newline
\* (an empty piece before the first newline is not a line, as in the test
\* case "\n\n"), each line tab-expanded and wrapped, pieces in top-to-bottom
\* order.
RECURSIVE RefSplit(_, _)
RefSplit(data, cur) ==
    IF data = <<>> THEN <<cur>>
    ELSE IF Head(data) = NL THEN <<cur>> \o RefSplit(Tail(data), <<>>)
    ELSE RefSplit(Tail(data), Append(cur, Head(data)))

RefLines(data) ==
    IF data = <<>> THEN <<>>
    ELSE LET all == RefSplit(data, <<>>)
         IN  IF Head(all) = <<>> THEN Tail(all) ELSE all

RECURSIVE RefWrap(_, _)
RefWrap(l, cols) ==
    IF Len(l) <= cols THEN <<l>>
    ELSE <<SubSeq(l, 1, cols)>> \o RefWrap(SubSeq(l, cols + 1, Len(l)), cols)

RECURSIVE RefPieces(_, _)
RefPieces(ls, cols) ==
    IF ls = <<>> THEN <<>>
    ELSE RefWrap(ExpandTabs(Head(ls), <<>>), cols) \o RefPieces(Tail(ls), cols)

RefTotal == Len(RefPieces(RefLines(ldata), lcols))

RefWindow(rows, cols, s, data) ==
    LET p == RefPieces(RefLines(data), cols)
        n == Len(p)
    IN  SubSeq(p, Max(1, n - s - rows + 1), n - s)

C10_ScrollClamp ==
    (lpc = "done" /\ lskip > RefTotal - lrows) =>
        lines = getBufferLinesToShow(lrows, lcols, Max(0, RefTotal - lrows), ldata)

\* The concatenation of a sequence of rows
RECURSIVE Flatten(_)
Flatten(rowsSeq) ==
    IF rowsSeq = <<>> THEN <<>> ELSE Head(rowsSeq) \o Flatten(Tail(rowsSeq))

\* The runes of a sequence other than the newlines
Visible(rs) == SelectSeq(rs, LAMBDA r : r # NL)

\* The expansion C11 states: a tab at expanded column c becomes
\* 4 - (c % 4) spaces; done is the part of the logical line expanded so far.
RECURSIVE RefExpand(_, _)
RefExpand(l, done) ==
    IF l = <<>> THEN done
    ELSE IF Head(l) = TAB
         THEN RefExpand(Tail(l), done \o [i \in 1..(4 - (Len(done) % 4)) |-> SP])
         ELSE RefExpand(Tail(l), Append(done, Head(l)))

RECURSIVE RefExpandAll(_)
RefExpandAll(ls) ==
    IF ls = <<>> THEN <<>>
    ELSE RefExpand(Head(ls), <<>>) \o RefExpandAll(Tail(ls))

\* C11: each tab is replaced by 4 - (c mod 4) spaces, c its expanded column
\* within its logical line, before wrapping.  When all of the content fits in
\* the rows, the runes shown (row breaks and newlines aside) are those of the
\* tab-expanded logical lines, in order.
C11_TabExpansion ==
    (lpc = "done" /\ lskip = 0 /\ RefTotal <= lrows) =>
        Visible(Flatten(lines)) = RefExpandAll(RefLines(ldata))

\* C12: evaluating the empty line reports success and leaves in showbuf the
\* contents of the input buffer at that moment, and no command is run.
C12_IdentityStage ==
    [][(rpc = "process" /\ line = <<>> /\ rpc' # "process") =>
          /\ showbuf' = inbuf
          /\ ~processError' /\ lastEval' = "ok"
          /\ rpc' = "clean" /\ run' = run /\ cmdin' = cmdin]_vars

\* the empty line has just been evaluated on a non-empty input, after a
\* command that failed
C12_Witness ==
    /\ rpc = "clean" /\ lastLine = <<>> /\ ~run.ok
    /\ showbuf = inbuf /\ showbuf # <<>> /\ ~processError

\* C13: a Write whose data fits in the capacity together with what is
\* buffered leaves the previous bytes intact, followed by the new data.
C13_WriteAppends ==
    [][(written' # written
          /\ Len(inbuf) + (Len(written') - Len(written)) <= buffersize) =>
          inbuf' = inbuf \o SubSeq(written', Len(written) + 1, Len(written'))]_vars

\* C14: the evaluator's read of the input buffer (the step that leaves
\* "process") never happens while the ingestor is inside Write, holding the
\* mutex between its trim and its append.
C14_SnapshotExcludesWrite ==
    [][(rpc = "process" /\ rpc' # "process") => (~mutex /\ ipc = "idle")]_vars

\* The input snapshot the latest evaluation used: the empty line shows it,
\* any other line gives it to the command.
LastSnapshot == IF lastLine = <<>> THEN showbuf ELSE cmdin

\* C15: no retained input is left unevaluated.  Whenever nothing is pending
\* (no Write in progress, the coordinator waiting in its select with the dirty
\* flag clear and the line it holds already evaluated), so that further ticks
\* evaluate nothing, the latest evaluation's snapshot is the buffer's content.
C15_InputReevaluated ==
    (rpc = "select" /\ ipc = "idle" /\ ~dirty /\ line = lastLine) =>
        LastSnapshot = inbuf

\* C16: a tick calls the evaluator exactly when the line differs from
\* lastLine or the buffer is dirty (a tick that only renders finds neither),
\* and the evaluator records the line it is given whatever the command's
\* result, so that a failed command is not run again while nothing changes.
C16_EvaluateIffChanged ==
    [][/\ (rpc = "select" /\ rpc' = "process") => (line # lastLine \/ dirty)
       /\ (rpc = "select" /\ rpc' = "select" /\ redraw /\ ~redraw') =>
              (line = lastLine /\ ~dirty)
       /\ (rpc = "process" /\ rpc' # "process") => lastLine' = line
       /\ (rpc = "running" => lastLine' = lastLine)]_vars

\* a command has failed and the coordinator is back in its select with the
\* same line and a clean buffer
C16_Witness ==
    /\ rpc = "select" /\ lastEval = "fail" /\ processError
    /\ line # <<>> /\ line = lastLine /\ ~dirty /\ ~quit

\* C17: the dispatcher is never waiting to hand an edit (forced redraw,
\* line or cursor) to a coordinator that is inside a command execution,
\* where it could not take the cancellation key until the command returns.
C17_CancelNotBlocked ==
    rpc = "running" => mpc \notin {"redrawCh", "lineCh", "cursorCh"}

\* C18: once the user has accepted, the coordinator's one error report is
\* received and the process exits.
C18_AcceptTerminates == gracefulExit ~> (exited /\ rpc = "done" /\ mpc = "exit")

\* the process has exited on an acceptance made after commands had run, the
\* report delivered
C18_Witness ==
    /\ exited /\ gracefulExit /\ quit /\ rpc = "done" /\ mpc = "exit"
    /\ lastLine # <<>> /\ lastEval = "ok"

\* C19: after an event that does not end the loop the dispatcher hands over
\* the forced redraw (for a resize only), then the line, then the cursor, each
\* received by the coordinator before the next, and it reads the next event
\* only when the coordinator holds the line and the cursor it has.
C19_PublishedBeforeNextEvent ==
    [][/\ (ev' # ev => mpc = "poll")
       /\ (mpc = "poll" /\ mpc' # "poll") =>
              mpc' = IF ev'.Key \in CancelKeys \cup {"KeyEnter"} THEN "defer"
                     ELSE IF ev'.Width # 0 \/ ev'.Height # 0 THEN "redrawCh"
                     ELSE "lineCh"
       /\ (mpc = "redrawCh" /\ mpc' # mpc) => (mpc' = "lineCh" /\ redraw')
       /\ (mpc = "lineCh" /\ mpc' # mpc) =>
              (mpc' = "cursorCh" /\ line' = lineBuffer)
       /\ (mpc = "cursorCh" /\ mpc' # mpc) =>
              (mpc' = "poll" /\ rcursor' = cursor)
       /\ (mpc' = "poll" => (line' = lineBuffer' /\ rcursor' = cursor'))]_vars

\* a resize has been handled and the forced redraw, the line and the cursor
\* handed over; the dispatcher is back in PollEvent
C19_Witness ==
    /\ mpc = "poll" /\ (ev.Width # 0 \/ ev.Height # 0)
    /\ line = lineBuffer /\ rcursor = cursor /\ cursor > 0

\* C20 as stated, for the runs in which the last command to run failed, so
\* that its stderr, run.err, is the stderr of the latest failing evaluation
\* (the empty line never fails): between evaluations errbuf is that stderr,
\* whatever has been evaluated since.
C20_LatestFailure ==
    (~run.ok /\ rpc # "running") => errbuf = run.err

\* C20: between evaluations errbuf is the stderr of the latest evaluation,
\* nothing for the empty line; it is the stderr of the latest failure
\* whenever the latest evaluation is that failure.
C20_LatestEvaluation ==
    /\ (lastEval # "none" /\ rpc # "running") =>
           errbuf = IF lastLine = <<>> THEN <<>> ELSE run.err
    /\ (processError /\ rpc # "running") => (~run.ok /\ errbuf = run.err)

\* a command failed with something on stderr, the empty line has been
\* evaluated since, and errbuf no longer holds the failure's stderr
C20_Witness ==
    /\ rpc = "select" /\ ~run.ok /\ run.err # <<>>
    /\ lastEval = "ok" /\ ~processError /\ errbuf = <<>>

\* C21: after any sequence of key events 0 <= cursor <= len(lineBuffer),
\* the length in bytes, so that every slice the switch takes is in range.
C21_CursorInRange == 0 <= cursor /\ cursor <= Len(lineBuffer)

\* an arrow right at the end of a line that holds a two-byte character
C21_Witness ==
    /\ ev.Key = "KeyArrowRight" /\ cursor = Len(lineBuffer)
    /\ \E i \in 1..Len(lineBuffer) : lineBuffer[i] = "C3"

\* C22: without scrolling, empty content gives no rows, and content of n
\* newlines and nothing else gives min(n, rows) rows, every one empty.
C22_EdgeCases ==
    (lpc = "done" /\ lskip = 0 /\ \A i \in 1..Len(ldata) : ldata[i] = NL) =>
        /\ Len(lines) = Min(Len(ldata), lrows)
        /\ \A i \in 1..Len(lines) : lines[i] = <<>>

\* C23: a resize event (Key 0, Ch 0, Width and Height set) leaves lineBuffer
\* and cursor as they were; the line and the cursor then handed over are
\* those from before the event, and only the forced redraw is added.
C23_ResizeKeepsEditState ==
    [][(mpc = "poll" /\ mpc' # "poll" /\ (ev'.Width # 0 \/ ev'.Height # 0)) =>
          /\ mpc' = "redrawCh"
          /\ lineBuffer' = lineBuffer /\ cursor' = cursor]_vars

\* C24: when the process exits 0 and has written output, the line last
\* evaluated is the line as it stood when Enter was pressed (lineBuffer,
\* unchanged since).
C24_AcceptedNotStale ==
    (exited /\ exitCode = 0 /\ stdout # <<>>) => lastLine = lineBuffer

=============================================================================
